---- MODULE Spec2Model ----
(***************************************************************************)
(* MainPassNode (bevy_render/src/render_graph/nodes/main_pass_node.rs):    *)
(* the render-graph node that resolves its pass attachments, opens one     *)
(* backend pass per active registered camera and replays the render        *)
(* commands of the camera's visible entities, tracking a DrawState that    *)
(* decides whether an indexed draw may be issued.                          *)
(*                                                                         *)
(* Option<T> is modelled with a distinguished value of T's own carrier:    *)
(* the string "None" for handles and ids, the record [kind |-> "None"]     *)
(* for attachments, [present |-> FALSE] for components.  Handles and ids   *)
(* are strings.                                                            *)
(***************************************************************************)
EXTENDS Integers, Sequences, FiniteSets, TLC

VARIABLES
    descriptor,                       \* MainPassNode.descriptor
    inputs,                           \* MainPassNode.inputs
    cameras,                          \* MainPassNode.cameras
    color_attachment_input_indices,   \* MainPassNode.color_attachment_input_indices
    depth_stencil_attachment_input_index, \* MainPassNode.depth_stencil_attachment_input_index
    active_cameras,                   \* resource ActiveCameras: name -> Option<Entity>
    visible_entities,                 \* component VisibleEntities of each camera entity
    draws,                            \* component Draw of each entity
    resources,                        \* the types the Resources handed to update hold
    input,                            \* the ResourceSlots handed to the current update
    pc,                               \* where update stands
    frame,                            \* number of update invocations started
    cam_i,                            \* position of `for camera_name in self.cameras.iter()`
    ent_i,                            \* position of `for visible_entity in visible_entities.iter()`
    cmd_i,                            \* position of `for render_command in draw.render_commands.iter()`
    draw_state,                       \* the closure's local DrawState
    passes,                           \* backend: the passes begun in this update, with their calls
    log,                              \* the log::info! diagnostics of this update
    declared,                         \* history: the descriptor MainPassNode::new was given
    last_input                        \* history: the ResourceSlots of the previous update

vars == <<descriptor, inputs, cameras, color_attachment_input_indices,
          depth_stencil_attachment_input_index, active_cameras, visible_entities,
          draws, resources, input, pc, frame, cam_i, ent_i, cmd_i, draw_state, passes,
          log,
          declared, last_input>>

node_vars == <<inputs, color_attachment_input_indices, depth_stencil_attachment_input_index,
               declared>>
world_vars == <<active_cameras, visible_entities, draws, resources>>

----------------------------------------------------------------------------
(* Bounds of the model. *)

\* add_camera calls made on the node
MaxCameras == 2
\* update invocations made on the node
MaxFrames == 2
\* length of the command streams enumerated over the whole command alphabet
MaxStream == 3
\* entities in the VisibleEntities of a camera
MaxVisible == 2
\* color attachments of the pass descriptor
MaxColorAttachments == 2

----------------------------------------------------------------------------
(* Option and sequence helpers. *)

None == "None"
IsSome(x) == x # None

NoAttachment == [kind |-> "None"]
Absent == [present |-> FALSE]

\* Vec::resize(n, None) on a cleared vector
NoneVec(n) == [i \in 1..n |-> None]

\* iter().all(|x| x.is_some())
AllSome(v) == \A i \in 1..Len(v) : IsSome(v[i])

\* Sequences over S of length at most n
SeqUpTo(S, n) == UNION {[1..k -> S] : k \in 0..n}

RECURSIVE Arrangements(_)
\* Sequences in which every element of S occurs at most once
Arrangements(S) ==
    {<<>>} \cup UNION {{<<x>> \o t : t \in Arrangements(S \ {x})} : x \in S}

----------------------------------------------------------------------------
(* The pipeline asset store, Assets<PipelineDescriptor>, and the layouts of *)
(* its pipelines.  P00 declares no bind group and no vertex buffer; P12     *)
(* declares one bind group and two vertex buffers; PNoLayout is loaded but  *)
(* has no layout yet; PMissing is a handle the store cannot resolve.        *)

Layout00 == [bind_groups |-> <<>>, vertex_buffer_descriptors |-> <<>>]
Layout12 == [bind_groups |-> <<[id |-> "BGD0"]>>,
             vertex_buffer_descriptors |-> <<"VBD0", "VBD1">>]
NoLayout == [bind_groups |-> <<>>, vertex_buffer_descriptors |-> <<>>, none |-> TRUE]

PipelineHandles == {"P00", "P12", "PNoLayout", "PMissing"}

\* Assets::get(handle): Option<&PipelineDescriptor>
pipelines_get(handle) ==
    CASE handle = "P00" -> [name |-> "P00", layout |-> Layout00]
      [] handle = "P12" -> [name |-> "P12", layout |-> Layout12]
      [] handle = "PNoLayout" -> [name |-> "PNoLayout", layout |-> NoLayout]
      [] OTHER -> [name |-> None, layout |-> NoLayout]

pipelines_has(handle) == IsSome(pipelines_get(handle).name)

\* PipelineDescriptor::get_layout(): Option<&PipelineLayout>
has_layout(pipeline_descriptor) == "none" \notin DOMAIN pipeline_descriptor.layout
get_layout(pipeline_descriptor) == pipeline_descriptor.layout

\* PipelineLayout::get_bind_group(index): Option<&BindGroupDescriptor>
has_bind_group(layout, index) == index < Len(layout.bind_groups)
get_bind_group(layout, index) == layout.bind_groups[index + 1]

----------------------------------------------------------------------------
(* DrawState *)

\* DrawState::default()
DrawStateDefault ==
    [pipeline |-> None, bind_groups |-> <<>>, vertex_buffers |-> <<>>,
     index_buffer |-> None]

\* self.bind_groups[index as usize] is in bounds
bind_group_in_bounds(ds, index) == index < Len(ds.bind_groups)

set_bind_group(ds, index, bind_group) ==
    [ds EXCEPT !.bind_groups[index + 1] = bind_group]

\* self.vertex_buffers[index as usize] is in bounds
vertex_buffer_in_bounds(ds, index) == index < Len(ds.vertex_buffers)

\* set_vertex_buffer marking every slot, not only slot `index`
set_vertex_buffer_filling_all(ds, index, buffer) ==
    [ds EXCEPT !.vertex_buffers = [i \in DOMAIN ds.vertex_buffers |-> buffer]]

set_vertex_buffer(ds, index, buffer) ==
    [ds EXCEPT !.vertex_buffers[index + 1] = buffer]

set_index_buffer(ds, buffer) ==
    [ds EXCEPT !.index_buffer = buffer]

\* can_draw_indexed without its last conjunct
can_draw_indexed_ignoring_index_buffer(ds) ==
    /\ AllSome(ds.bind_groups)
    /\ AllSome(ds.vertex_buffers)

can_draw_indexed(ds) ==
    /\ AllSome(ds.bind_groups)
    /\ AllSome(ds.vertex_buffers)
    /\ IsSome(ds.index_buffer)

\* set_pipeline without `self.index_buffer = None`
set_pipeline_keeping_index_buffer(ds, handle, pipeline_descriptor) ==
    LET layout == get_layout(pipeline_descriptor) IN
    [pipeline |-> handle,
     bind_groups |-> NoneVec(Len(layout.bind_groups)),
     vertex_buffers |-> NoneVec(Len(layout.vertex_buffer_descriptors)),
     index_buffer |-> ds.index_buffer]

\* lines 212-216: set_pipeline up to get_layout().unwrap(), which panics on a
\* descriptor without layout
set_pipeline_before_layout(ds, handle) ==
    [pipeline |-> handle,
     bind_groups |-> <<>>,
     vertex_buffers |-> <<>>,
     index_buffer |-> None]

\* set_pipeline clearing both vectors without resizing them
set_pipeline_without_resize(ds, handle, pipeline_descriptor) ==
    [pipeline |-> handle,
     bind_groups |-> <<>>,
     vertex_buffers |-> <<>>,
     index_buffer |-> None]

\* requires has_layout(pipeline_descriptor): get_layout().unwrap()
set_pipeline(ds, handle, pipeline_descriptor) ==
    LET layout == get_layout(pipeline_descriptor) IN
    [pipeline |-> handle,
     bind_groups |-> NoneVec(Len(layout.bind_groups)),
     vertex_buffers |-> NoneVec(Len(layout.vertex_buffer_descriptors)),
     index_buffer |-> None]

----------------------------------------------------------------------------
(* RenderCommand *)

SetPipeline(pipeline) == [type |-> "SetPipeline", pipeline |-> pipeline]
DrawIndexed(base_vertex, indices, instances) ==
    [type |-> "DrawIndexed", base_vertex |-> base_vertex, indices |-> indices,
     instances |-> instances]
SetVertexBuffer(buffer, offset, slot) ==
    [type |-> "SetVertexBuffer", buffer |-> buffer, offset |-> offset, slot |-> slot]
SetIndexBuffer(buffer, offset) ==
    [type |-> "SetIndexBuffer", buffer |-> buffer, offset |-> offset]
SetBindGroup(index, bind_group, dynamic_uniform_indices) ==
    [type |-> "SetBindGroup", index |-> index, bind_group |-> bind_group,
     dynamic_uniform_indices |-> dynamic_uniform_indices]

\* The commands the model replays.  Ranges a..b are pairs <<a, b>>.
TheDraw == DrawIndexed(7, <<0, 6>>, <<0, 1>>)
VB0 == SetVertexBuffer("A", 0, 0)
VB1 == SetVertexBuffer("B", 0, 1)
IB == SetIndexBuffer("I", 0)
BG0 == SetBindGroup(0, "G", Absent)

CommandAlphabet ==
    {SetPipeline(h) : h \in PipelineHandles} \cup {TheDraw, VB0, VB1, IB, BG0}

\* The commands of the two-vertex-buffer, one-bind-group scenario
ScenarioCommands == {SetPipeline("P12"), VB0, BG0, VB1, IB, TheDraw}

----------------------------------------------------------------------------
(* TextureAttachment, PassDescriptor, MainPassNode::new *)

AttInput(name) == [kind |-> "Input", name |-> name]
AttId(id) == [kind |-> "Id", id |-> id]

\* Option<usize>: None is -1, Some(i) is i (indices count from 0 as in the code)
NoIndex == 0 - 1

RECURSIVE NewColorInputs(_, _)
\* lines 24-34: the (inputs, color_attachment_input_indices) built over the
\* color attachments, given the inputs pushed so far
NewColorInputs(color_attachments, acc) ==
    IF color_attachments = <<>> THEN acc
    ELSE LET att == Head(color_attachments) IN
         IF att.kind = "Input"
         THEN NewColorInputs(Tail(color_attachments),
                [inputs |-> Append(acc.inputs,
                                   [name |-> att.name, resource_type |-> "Texture"]),
                 indices |-> Append(acc.indices, Len(acc.inputs) + 1 - 1)])
         ELSE NewColorInputs(Tail(color_attachments),
                [inputs |-> acc.inputs, indices |-> Append(acc.indices, NoIndex)])

\* new recording index 0 for the depth-stencil input, whatever the color
\* attachments pushed
New_depth_index_zero(d) ==
    LET color == NewColorInputs(d.color_attachments, [inputs |-> <<>>, indices |-> <<>>])
        depth_is_input == d.depth_stencil_attachment.kind = "Input"
    IN [descriptor |-> d,
        inputs |-> IF depth_is_input
                   THEN Append(color.inputs,
                               [name |-> d.depth_stencil_attachment.name,
                                resource_type |-> "Texture"])
                   ELSE color.inputs,
        cameras |-> <<>>,
        color_attachment_input_indices |-> color.indices,
        depth_stencil_attachment_input_index |->
            IF depth_is_input THEN 1 - 1 ELSE NoIndex]

\* MainPassNode::new(descriptor)
New(d) ==
    LET color == NewColorInputs(d.color_attachments, [inputs |-> <<>>, indices |-> <<>>])
        depth_is_input == d.depth_stencil_attachment.kind = "Input"
    IN [descriptor |-> d,
        inputs |-> IF depth_is_input
                   THEN Append(color.inputs,
                               [name |-> d.depth_stencil_attachment.name,
                                resource_type |-> "Texture"])
                   ELSE color.inputs,
        cameras |-> <<>>,
        color_attachment_input_indices |-> color.indices,
        depth_stencil_attachment_input_index |->
            IF depth_is_input THEN Len(color.inputs) + 1 - 1 ELSE NoIndex]

----------------------------------------------------------------------------
(* ResourceSlots *)

SlotTexture(id) == [kind |-> "Texture", id |-> id]
SlotBuffer(id) == [kind |-> "Buffer", id |-> id]
SlotEmpty == [kind |-> "Empty"]

SlotValues == {SlotTexture("T1"), SlotTexture("T2"), SlotBuffer("B1"), SlotEmpty}

\* ResourceSlots::get(index).is_some()
slot_has_resource(slots, index) ==
    index + 1 \in DOMAIN slots /\ slots[index + 1].kind # "Empty"
\* RenderResource::get_texture().is_some()
slot_is_texture(slots, index) == slots[index + 1].kind = "Texture"
\* input.get(index).unwrap().get_texture().unwrap()
slot_texture(slots, index) == slots[index + 1].id

----------------------------------------------------------------------------
(* The worlds update runs in: a pass descriptor, the ActiveCameras          *)
(* resource and the VisibleEntities and Draw components.                    *)

CameraComponent(entities) == [present |-> TRUE, entities |-> entities]
DrawComponent(is_visible, render_commands) ==
    [present |-> TRUE, is_visible |-> is_visible, render_commands |-> render_commands]

LiteralDescriptor ==
    [color_attachments |-> <<AttId("T0")>>, depth_stencil_attachment |-> NoAttachment]

\* lines 74-76: the resources update fetches
AllResources == {"RenderResourceBindings", "Assets<PipelineDescriptor>", "ActiveCameras"}

\* One camera "a" that sees the one entity E1, whose Draw holds `stream`
StreamWorld(d, stream) ==
    [descriptor |-> d,
     resources |-> AllResources,
     active_cameras |-> [n \in {"a"} |-> "CamA"],
     visible_entities |-> [c \in {"CamA"} |-> CameraComponent(<<"E1">>)],
     draws |-> [e \in {"E1"} |-> DrawComponent(TRUE, stream)]]

\* Every stream of at most MaxStream commands, every stream of at most
\* MaxStream + 1 commands on the pipeline without slots, and every stream in
\* which each command of the scenario occurs at most once
Streams ==
    SeqUpTo(CommandAlphabet, MaxStream)
    \cup SeqUpTo({SetPipeline("P00"), IB, TheDraw}, MaxStream + 1)
    \cup Arrangements(ScenarioCommands)

StreamWorlds == {StreamWorld(LiteralDescriptor, s) : s \in Streams}

\* Two camera names and two entities: each name inactive, or bound to a
\* camera entity that lacks VisibleEntities or sees some entities; each
\* entity without Draw, or with a visible or invisible Draw
SceneStreams == {<<SetPipeline("P00"), IB>>, <<IB, TheDraw>>, <<BG0>>}
SceneDraws ==
    {Absent} \cup {DrawComponent(v, s) : v \in BOOLEAN, s \in SceneStreams}
SceneCamerasA ==
    {Absent} \cup {CameraComponent(l) : l \in SeqUpTo({"E1", "E2"}, MaxVisible)}
SceneCamerasB ==
    {Absent} \cup {CameraComponent(l) : l \in {<<>>, <<"E1">>, <<"E2">>}}

AllSceneWorlds ==
    {[descriptor |-> LiteralDescriptor,
      resources |-> AllResources,
      active_cameras |-> [n \in {"a", "b"} |-> IF n = "a" THEN a ELSE b],
      visible_entities |-> [c \in {"CamA", "CamB"} |-> IF c = "CamA" THEN va ELSE vb],
      draws |-> [e \in {"E1", "E2"} |-> IF e = "E1" THEN d1 ELSE d2]] :
        a \in {None, "CamA"}, b \in {None, "CamB"},
        va \in SceneCamerasA, vb \in SceneCamerasB,
        d1 \in SceneDraws, d2 \in SceneDraws}

\* A camera entity no name is bound to is never looked at: one world stands
\* for all that differ only there
SceneWorlds ==
    {w \in AllSceneWorlds :
        /\ w.active_cameras["a"] = None => w.visible_entities["CamA"] = Absent
        /\ w.active_cameras["b"] = None => w.visible_entities["CamB"] = Absent}

\* Every descriptor of at most MaxColorAttachments color attachments and an optional
\* depth-stencil attachment, each a named input or a literal texture
Descriptors ==
    {[color_attachments |-> c, depth_stencil_attachment |-> d] :
        c \in SeqUpTo({AttInput("color"), AttId("T0")}, MaxColorAttachments),
        d \in {NoAttachment, AttInput("depth"), AttId("TD")}}

AttachmentWorlds ==
    {StreamWorld(d, <<SetPipeline("P00"), IB, TheDraw>>) : d \in Descriptors}

\* Worlds whose Resources lack some of the types update fetches
MissingResourceWorlds ==
    {[StreamWorld(d, <<SetPipeline("P00"), IB, TheDraw>>) EXCEPT !.resources = r] :
        d \in {LiteralDescriptor,
                [color_attachments |-> <<AttInput("color")>>,
                 depth_stencil_attachment |-> NoAttachment]},
        r \in (SUBSET AllResources) \ {AllResources}}

Worlds == StreamWorlds \cup SceneWorlds \cup AttachmentWorlds \cup MissingResourceWorlds

----------------------------------------------------------------------------
(* Init: a node just built by MainPassNode::new, in some world *)

Init ==
    \E w \in Worlds :
        LET node == New(w.descriptor) IN
        /\ declared = w.descriptor
        /\ last_input = <<>>
        /\ descriptor = node.descriptor
        /\ inputs = node.inputs
        /\ cameras = node.cameras
        /\ color_attachment_input_indices = node.color_attachment_input_indices
        /\ depth_stencil_attachment_input_index = node.depth_stencil_attachment_input_index
        /\ active_cameras = w.active_cameras
        /\ visible_entities = w.visible_entities
        /\ draws = w.draws
        /\ resources = w.resources
        /\ input = <<>>
        /\ pc = "idle"
        /\ frame = 0
        /\ cam_i = 1
        /\ ent_i = 1
        /\ cmd_i = 1
        /\ draw_state = DrawStateDefault
        /\ passes = <<>>
        /\ log = <<>>

----------------------------------------------------------------------------
(* MainPassNode::add_camera *)

AddCamera(camera_name) ==
    /\ pc \in {"idle", "done"}
    /\ Len(cameras) < MaxCameras
    /\ cameras' = Append(cameras, camera_name)
    /\ UNCHANGED <<descriptor, node_vars, world_vars, input, last_input, pc, frame, cam_i, ent_i,
                   cmd_i, draw_state, passes, log>>

----------------------------------------------------------------------------
(* update, lines 78-92: the attachments declared as inputs are overwritten  *)
(* with the textures of the frame's ResourceSlots                           *)

\* a resolution that takes any resource for a texture
CanResolve_ignoring_kind(slots, input_index) ==
    slot_has_resource(slots, input_index)

\* input.get(input_index).unwrap().get_texture().unwrap() does not panic
CanResolve(slots, input_index) ==
    slot_has_resource(slots, input_index) /\ slot_is_texture(slots, input_index)

\* a resolution that overwrites an attachment only while it still names its input
ResolveColor_once(att, input_index, slots) ==
    IF input_index # NoIndex /\ att.kind = "Input"
    THEN AttId(slot_texture(slots, input_index)) ELSE att

\* lines 78-83, one color attachment
ResolveColor(att, input_index, slots) ==
    IF input_index # NoIndex THEN AttId(slot_texture(slots, input_index)) ELSE att

\* lines 85-92
ResolveDepth(att, input_index, slots) ==
    IF input_index # NoIndex THEN AttId(slot_texture(slots, input_index)) ELSE att

\* no unwrap of lines 78-92 panics
ResolveOk(indices, depth_index, slots) ==
    /\ \A i \in 1..Len(indices) : indices[i] # NoIndex => CanResolve(slots, indices[i])
    /\ depth_index # NoIndex => CanResolve(slots, depth_index)

\* lines 74-76: none of the three resources.get::<T>().unwrap() panics
ResourcesPresent == AllResources \subseteq resources

\* lines 78-92 when some unwrap panics: the descriptor as the panic leaves it,
\* the attachments before the one that cannot be resolved already overwritten
ResolveUntilPanic(d, indices, depth_index, slots) ==
    LET failing == {i \in 1..Len(indices) :
                        indices[i] # NoIndex /\ ~CanResolve(slots, indices[i])}
        first == IF failing = {} THEN Len(indices) + 1
                 ELSE CHOOSE i \in failing : \A j \in failing : i <= j
    IN [color_attachments |->
            [i \in 1..Len(d.color_attachments) |->
                IF i < first THEN ResolveColor(d.color_attachments[i], indices[i], slots)
                ELSE d.color_attachments[i]],
        depth_stencil_attachment |-> d.depth_stencil_attachment]

ResolveAttachments(d, indices, depth_index, slots) ==
    [color_attachments |->
        [i \in 1..Len(d.color_attachments) |->
            ResolveColor(d.color_attachments[i], indices[i], slots)],
     depth_stencil_attachment |->
        ResolveDepth(d.depth_stencil_attachment, depth_index, slots)]

\* The scheduler invokes update with the frame's ResourceSlots.
BeginUpdate(slots) ==
    /\ pc \in {"idle", "done"}
    /\ frame < MaxFrames
    /\ frame' = frame + 1
    /\ input' = slots
    /\ last_input' = input
    /\ passes' = <<>>
    /\ log' = <<>>
    /\ cam_i' = 1
    /\ IF ~ResourcesPresent
       THEN /\ descriptor' = descriptor
            /\ pc' = "panicked"
       ELSE IF ResolveOk(color_attachment_input_indices,
                         depth_stencil_attachment_input_index, slots)
       THEN /\ descriptor' = ResolveAttachments(descriptor,
                                color_attachment_input_indices,
                                depth_stencil_attachment_input_index, slots)
            /\ pc' = "cameras"
       ELSE /\ descriptor' = ResolveUntilPanic(descriptor,
                                color_attachment_input_indices,
                                depth_stencil_attachment_input_index, slots)
            /\ pc' = "panicked"
    /\ UNCHANGED <<node_vars, cameras, world_vars, ent_i, cmd_i, draw_state>>

----------------------------------------------------------------------------
(* update, lines 94-104: the camera loop *)

CameraName == cameras[cam_i]
\* active_cameras.get(camera_name)
CameraEntity ==
    IF CameraName \in DOMAIN active_cameras THEN active_cameras[CameraName] ELSE None
AtCamera == pc = "cameras" /\ cam_i <= Len(cameras)

\* the camera loop ending at the first name without an active camera entity
SkipCamera_breaking ==
    /\ AtCamera
    /\ CameraEntity = None
    /\ cam_i' = Len(cameras) + 1
    /\ UNCHANGED <<descriptor, node_vars, cameras, world_vars, input, last_input, pc, frame, ent_i,
                   cmd_i, draw_state, passes, log>>

\* lines 97-99: no active camera entity under that name
SkipCamera ==
    /\ AtCamera
    /\ CameraEntity = None
    /\ cam_i' = cam_i + 1
    /\ UNCHANGED <<descriptor, node_vars, cameras, world_vars, input, last_input, pc, frame, ent_i,
                   cmd_i, draw_state, passes, log>>

\* the camera loop passing over a camera entity without VisibleEntities
CameraPanic_skipping ==
    /\ AtCamera
    /\ CameraEntity # None
    /\ ~visible_entities[CameraEntity].present
    /\ cam_i' = cam_i + 1
    /\ UNCHANGED <<descriptor, node_vars, cameras, world_vars, input, last_input, frame, pc,
                   ent_i, cmd_i, draw_state, passes, log>>

\* line 96: get_component::<VisibleEntities>(camera_entity).unwrap() panics
CameraPanic ==
    /\ AtCamera
    /\ CameraEntity # None
    /\ ~visible_entities[CameraEntity].present
    /\ pc' = "panicked"
    /\ UNCHANGED <<descriptor, node_vars, cameras, world_vars, input, last_input, frame, cam_i,
                   ent_i, cmd_i, draw_state, passes, log>>

\* the closure going on with the DrawState the previous pass left behind
BeginPass_keeping_draw_state ==
    /\ AtCamera
    /\ CameraEntity # None
    /\ visible_entities[CameraEntity].present
    /\ passes' = Append(passes, [camera |-> CameraName, descriptor |-> descriptor,
                                 calls |-> <<>>, closed |-> FALSE])
    /\ pc' = "pass"
    /\ ent_i' = 1
    /\ cmd_i' = 1
    /\ UNCHANGED <<descriptor, node_vars, cameras, world_vars, input, last_input, frame, cam_i, log,
                   draw_state>>

\* lines 101-105: begin_pass opens the pass and runs the closure, which
\* starts with a default DrawState
BeginPass ==
    /\ AtCamera
    /\ CameraEntity # None
    /\ visible_entities[CameraEntity].present
    /\ passes' = Append(passes, [camera |-> CameraName, descriptor |-> descriptor,
                                 calls |-> <<>>, closed |-> FALSE])
    /\ draw_state' = DrawStateDefault
    /\ pc' = "pass"
    /\ ent_i' = 1
    /\ cmd_i' = 1
    /\ UNCHANGED <<descriptor, node_vars, cameras, world_vars, input, last_input, frame, cam_i, log>>

\* RenderContext::begin_pass closes the pass when its closure has returned
close_pass(pass) == [pass EXCEPT !.closed = TRUE]

\* the closure returning with its pass left open
EndPass_leaving_open ==
    /\ pc = "pass"
    /\ ent_i > Len(visible_entities[CameraEntity].entities)
    /\ pc' = "cameras"
    /\ cam_i' = cam_i + 1
    /\ UNCHANGED <<descriptor, node_vars, cameras, world_vars, input, last_input, frame, ent_i,
                   cmd_i, draw_state, passes, log>>

\* lines 173-175: the closure returns, the backend closes the pass, and the
\* camera loop goes on
EndPass ==
    /\ pc = "pass"
    /\ ent_i > Len(visible_entities[CameraEntity].entities)
    /\ passes' = [passes EXCEPT ![Len(passes)] = close_pass(@)]
    /\ pc' = "cameras"
    /\ cam_i' = cam_i + 1
    /\ UNCHANGED <<descriptor, node_vars, cameras, world_vars, input, last_input, frame, ent_i,
                   cmd_i, draw_state, log>>

\* line 176: update returns
EndUpdate ==
    /\ pc = "cameras"
    /\ cam_i > Len(cameras)
    /\ pc' = "done"
    /\ UNCHANGED <<descriptor, node_vars, cameras, world_vars, input, last_input, frame, cam_i,
                   ent_i, cmd_i, draw_state, passes, log>>

----------------------------------------------------------------------------
(* update, lines 117-170: what replaying one render command does to the     *)
(* DrawState, which backend calls it issues on the render pass, what it     *)
(* logs, and whether it returns (ok) or panics                              *)

Outcome(ds, calls, diagnostics, ok) ==
    [draw_state |-> ds, calls |-> calls, log |-> diagnostics, ok |-> ok]

\* lines 119-124
DoSetPipeline(ds, cmd) ==
    LET call == [call |-> "set_pipeline", pipeline |-> cmd.pipeline] IN
    IF ~pipelines_has(cmd.pipeline) THEN Outcome(ds, <<call>>, <<>>, FALSE)
    ELSE IF ~has_layout(pipelines_get(cmd.pipeline))
    THEN Outcome(set_pipeline_before_layout(ds, cmd.pipeline), <<call>>, <<>>, FALSE)
    ELSE Outcome(set_pipeline(ds, cmd.pipeline, pipelines_get(cmd.pipeline)),
                 <<call>>, <<>>, TRUE)

\* DrawIndexed failing the invocation when the DrawState is not ready
DoDrawIndexed_aborting(ds, cmd) ==
    IF can_draw_indexed(ds)
    THEN Outcome(ds, <<[call |-> "draw_indexed", indices |-> cmd.indices,
                        base_vertex |-> cmd.base_vertex,
                        instances |-> cmd.instances]>>, <<>>, TRUE)
    ELSE Outcome(ds, <<>>, <<[pipeline |-> ds.pipeline]>>, FALSE)

\* DrawIndexed passing the instance range as the index range and back
DoDrawIndexed_swapping_ranges(ds, cmd) ==
    IF can_draw_indexed(ds)
    THEN Outcome(ds, <<[call |-> "draw_indexed", indices |-> cmd.instances,
                        base_vertex |-> cmd.base_vertex,
                        instances |-> cmd.indices]>>, <<>>, TRUE)
    ELSE Outcome(ds, <<>>, <<[pipeline |-> ds.pipeline]>>, TRUE)

\* lines 125-139
DoDrawIndexed(ds, cmd) ==
    IF can_draw_indexed(ds)
    THEN Outcome(ds, <<[call |-> "draw_indexed", indices |-> cmd.indices,
                        base_vertex |-> cmd.base_vertex,
                        instances |-> cmd.instances]>>, <<>>, TRUE)
    ELSE Outcome(ds, <<>>, <<[pipeline |-> ds.pipeline]>>, TRUE)

\* lines 140-147
DoSetVertexBuffer(ds, cmd) ==
    LET call == [call |-> "set_vertex_buffer", slot |-> cmd.slot,
                 buffer |-> cmd.buffer, offset |-> cmd.offset] IN
    IF vertex_buffer_in_bounds(ds, cmd.slot)
    THEN Outcome(set_vertex_buffer(ds, cmd.slot, cmd.buffer), <<call>>, <<>>, TRUE)
    ELSE Outcome(ds, <<call>>, <<>>, FALSE)

\* SetIndexBuffer reaching the backend without the DrawState recording it
DoSetIndexBuffer_not_recording(ds, cmd) ==
    Outcome(ds, <<[call |-> "set_index_buffer", buffer |-> cmd.buffer,
                   offset |-> cmd.offset]>>, <<>>, TRUE)

\* lines 148-151
DoSetIndexBuffer(ds, cmd) ==
    Outcome(set_index_buffer(ds, cmd.buffer),
            <<[call |-> "set_index_buffer", buffer |-> cmd.buffer,
               offset |-> cmd.offset]>>, <<>>, TRUE)

\* lines 157-159: none of the four unwraps panics
BindGroupResolves(ds, index) ==
    /\ IsSome(ds.pipeline)
    /\ pipelines_has(ds.pipeline)
    /\ has_layout(pipelines_get(ds.pipeline))
    /\ has_bind_group(get_layout(pipelines_get(ds.pipeline)), index)

\* SetBindGroup ignored, not fatal, when its layout cannot be resolved
DoSetBindGroup_skipping(ds, cmd) ==
    IF ~BindGroupResolves(ds, cmd.index) THEN Outcome(ds, <<>>, <<>>, TRUE)
    ELSE LET bind_group_descriptor ==
                 get_bind_group(get_layout(pipelines_get(ds.pipeline)), cmd.index)
             call == [call |-> "set_bind_group", index |-> cmd.index,
                      bind_group_descriptor |-> bind_group_descriptor.id,
                      bind_group |-> cmd.bind_group,
                      dynamic_uniform_indices |-> cmd.dynamic_uniform_indices]
         IN IF bind_group_in_bounds(ds, cmd.index)
            THEN Outcome(set_bind_group(ds, cmd.index, cmd.bind_group),
                         <<call>>, <<>>, TRUE)
            ELSE Outcome(ds, <<call>>, <<>>, FALSE)

\* lines 152-169
DoSetBindGroup(ds, cmd) ==
    IF ~BindGroupResolves(ds, cmd.index) THEN Outcome(ds, <<>>, <<>>, FALSE)
    ELSE LET bind_group_descriptor ==
                 get_bind_group(get_layout(pipelines_get(ds.pipeline)), cmd.index)
             call == [call |-> "set_bind_group", index |-> cmd.index,
                      bind_group_descriptor |-> bind_group_descriptor.id,
                      bind_group |-> cmd.bind_group,
                      dynamic_uniform_indices |-> cmd.dynamic_uniform_indices]
         IN IF bind_group_in_bounds(ds, cmd.index)
            THEN Outcome(set_bind_group(ds, cmd.index, cmd.bind_group),
                         <<call>>, <<>>, TRUE)
            ELSE Outcome(ds, <<call>>, <<>>, FALSE)

\* line 118: match render_command
Dispatch(ds, cmd) ==
    CASE cmd.type = "SetPipeline" -> DoSetPipeline(ds, cmd)
      [] cmd.type = "DrawIndexed" -> DoDrawIndexed(ds, cmd)
      [] cmd.type = "SetVertexBuffer" -> DoSetVertexBuffer(ds, cmd)
      [] cmd.type = "SetIndexBuffer" -> DoSetIndexBuffer(ds, cmd)
      [] cmd.type = "SetBindGroup" -> DoSetBindGroup(ds, cmd)

RECURSIVE RunStream(_, _)
\* lines 117-171: the command loop over `stream` from DrawState ds; it stops
\* at the first command that panics
RunStream(ds, stream) ==
    IF stream = <<>> THEN Outcome(ds, <<>>, <<>>, TRUE)
    ELSE LET r == Dispatch(ds, Head(stream)) IN
         IF ~r.ok THEN r
         ELSE LET rest == RunStream(r.draw_state, Tail(stream)) IN
              Outcome(rest.draw_state, r.calls \o rest.calls, r.log \o rest.log, rest.ok)

----------------------------------------------------------------------------
(* update, lines 106-172: the entity loop and the command loop of a pass *)

Visible == visible_entities[CameraEntity].entities
AtEntity == pc = "pass" /\ ent_i <= Len(Visible)
Entity == Visible[ent_i]
\* world.get_component::<Draw>(visible_entity.entity)
Draw == IF Entity \in DOMAIN draws THEN draws[Entity] ELSE Absent
\* eligibility without the is_visible test of lines 113-115
Eligible_ignoring_visibility == AtEntity /\ Draw.present
Eligible == AtEntity /\ Draw.present /\ Draw.is_visible
AtCommand == Eligible /\ cmd_i <= Len(Draw.render_commands)
Command == Draw.render_commands[cmd_i]

\* a missing Draw component taken for an error
SkipNoDraw_aborting ==
    /\ AtEntity
    /\ ~Draw.present
    /\ pc' = "panicked"
    /\ UNCHANGED <<descriptor, node_vars, cameras, world_vars, input, last_input, frame, cam_i,
                   ent_i, cmd_i, draw_state, passes, log>>

\* lines 107-111: the entity has no Draw component
SkipNoDraw ==
    /\ AtEntity
    /\ ~Draw.present
    /\ ent_i' = ent_i + 1
    /\ UNCHANGED <<descriptor, node_vars, cameras, world_vars, input, last_input, pc, frame, cam_i,
                   cmd_i, draw_state, passes, log>>

\* lines 113-115: the entity's Draw is not visible
SkipInvisible ==
    /\ AtEntity
    /\ Draw.present
    /\ ~Draw.is_visible
    /\ ent_i' = ent_i + 1
    /\ UNCHANGED <<descriptor, node_vars, cameras, world_vars, input, last_input, pc, frame, cam_i,
                   cmd_i, draw_state, passes, log>>

\* line 117: the entity's commands are exhausted
FinishEntity ==
    /\ Eligible
    /\ cmd_i > Len(Draw.render_commands)
    /\ ent_i' = ent_i + 1
    /\ cmd_i' = 1
    /\ UNCHANGED <<descriptor, node_vars, cameras, world_vars, input, last_input, pc, frame, cam_i,
                   draw_state, passes, log>>

\* the backend receiving a command's calls ahead of the earlier ones
Replay_prepending(r) ==
    /\ draw_state' = r.draw_state
    /\ passes' = [passes EXCEPT ![Len(passes)].calls = r.calls \o @]
    /\ log' = log \o r.log
    /\ pc' = IF r.ok THEN pc ELSE "panicked"
    /\ cmd_i' = IF r.ok THEN cmd_i + 1 ELSE cmd_i
    /\ UNCHANGED <<descriptor, node_vars, cameras, world_vars, input, last_input, frame, cam_i, ent_i>>

\* One iteration of the command loop with outcome r: the backend calls reach
\* the open pass, and a panic ends the invocation
Replay(r) ==
    /\ draw_state' = r.draw_state
    /\ passes' = [passes EXCEPT ![Len(passes)].calls = @ \o r.calls]
    /\ log' = log \o r.log
    /\ pc' = IF r.ok THEN pc ELSE "panicked"
    /\ cmd_i' = IF r.ok THEN cmd_i + 1 ELSE cmd_i
    /\ UNCHANGED <<descriptor, node_vars, cameras, world_vars, input, last_input, frame, cam_i, ent_i>>

ReplaySetPipeline ==
    AtCommand /\ Command.type = "SetPipeline" /\ Replay(Dispatch(draw_state, Command))

ReplayDrawIndexed ==
    AtCommand /\ Command.type = "DrawIndexed" /\ Replay(Dispatch(draw_state, Command))

ReplaySetVertexBuffer ==
    AtCommand /\ Command.type = "SetVertexBuffer" /\ Replay(Dispatch(draw_state, Command))

ReplaySetIndexBuffer ==
    AtCommand /\ Command.type = "SetIndexBuffer" /\ Replay(Dispatch(draw_state, Command))

ReplaySetBindGroup ==
    AtCommand /\ Command.type = "SetBindGroup" /\ Replay(Dispatch(draw_state, Command))

----------------------------------------------------------------------------
(* The specification *)

\* The camera names add_camera is called with: those ActiveCameras knows
CameraNames == DOMAIN active_cameras

\* The ResourceSlots a frame supplies: one slot per declared input
FrameSlots == [1..Len(inputs) -> SlotValues]

Next ==
    \/ \E camera_name \in CameraNames : AddCamera(camera_name)
    \/ \E slots \in FrameSlots : BeginUpdate(slots)
    \/ SkipCamera
    \/ CameraPanic
    \/ BeginPass
    \/ SkipNoDraw
    \/ SkipInvisible
    \/ ReplaySetPipeline
    \/ ReplayDrawIndexed
    \/ ReplaySetVertexBuffer
    \/ ReplaySetIndexBuffer
    \/ ReplaySetBindGroup
    \/ FinishEntity
    \/ EndPass
    \/ EndUpdate

Spec == Init /\ [][Next]_vars

----------------------------------------------------------------------------
(* What the properties below speak of: the backend calls of the pass being  *)
(* replayed, and the commands replayed so far in it.                        *)

InPass == pc = "pass"
CurrentCalls == passes[Len(passes)].calls
IsCall(c, name) == c.call = name
NumCalls(calls, name) == Cardinality({k \in DOMAIN calls : IsCall(calls[k], name)})
AtDrawIndexed == AtCommand /\ Command.type = "DrawIndexed"

\* Every slot of both arrays is filled and the index buffer is set
SlotsFilled(ds) ==
    /\ \A i \in DOMAIN ds.bind_groups : ds.bind_groups[i] # None
    /\ \A i \in DOMAIN ds.vertex_buffers : ds.vertex_buffers[i] # None
    /\ ds.index_buffer # None

\* The step issues exactly one backend call, a draw_indexed
IssuesDraw ==
    /\ Len(CurrentCalls') = Len(CurrentCalls) + 1
    /\ SubSeq(CurrentCalls', 1, Len(CurrentCalls)) = CurrentCalls
    /\ IsCall(CurrentCalls'[Len(CurrentCalls')], "draw_indexed")

\* The position of the last set_pipeline call among calls[1..k], 0 if none
LastSetPipeline(calls, k) ==
    LET S == {j \in 1..k : IsCall(calls[j], "set_pipeline")} IN
    IF S = {} THEN 0 ELSE CHOOSE j \in S : \A i \in S : i <= j

\* The positions after position j and before position k that hold a call `name`
Between(calls, j, k, name) == {i \in (j + 1)..(k - 1) : IsCall(calls[i], name)}

\* The slot counts the layout of a pipeline declares
SlotsB(handle) == Len(get_layout(pipelines_get(handle)).bind_groups)
SlotsV(handle) == Len(get_layout(pipelines_get(handle)).vertex_buffer_descriptors)

----------------------------------------------------------------------------
\* C1: replaying a DrawIndexed issues a backend draw_indexed call if and only
\* if every bind-group slot and every vertex-buffer slot of the DrawState is
\* filled and its index buffer is set; otherwise it issues no backend call.
C1_DrawIffReady ==
    [][AtDrawIndexed =>
        IF SlotsFilled(draw_state) THEN IssuesDraw ELSE passes' = passes]_vars

\* a pass in which one DrawIndexed was dropped and a later one was issued
C1_Witness ==
    /\ InPass
    /\ log # <<>>
    /\ CurrentCalls # <<>>
    /\ IsCall(CurrentCalls[Len(CurrentCalls)], "draw_indexed")

\* C2: every backend draw_indexed call of a pass comes after a set_pipeline
\* call of that pass, and after the set_index_buffer, set_vertex_buffer and
\* set_bind_group calls that pipeline's layout requires.
C2_DrawOnlyWithPipeline ==
    \A p \in DOMAIN passes :
        \A k \in DOMAIN passes[p].calls :
            LET calls == passes[p].calls
                j == LastSetPipeline(calls, k)
            IN IsCall(calls[k], "draw_indexed") =>
                /\ j > 0
                /\ Between(calls, j, k, "set_index_buffer") # {}
                /\ \A b \in 0..(SlotsB(calls[j].pipeline) - 1) :
                       \E i \in Between(calls, j, k, "set_bind_group") :
                           calls[i].index = b
                /\ \A v \in 0..(SlotsV(calls[j].pipeline) - 1) :
                       \E i \in Between(calls, j, k, "set_vertex_buffer") :
                           calls[i].slot = v


\* C3 as stated: every backend draw_indexed call that follows a set_pipeline
\* call is preceded, since the last set_pipeline, by exactly B set_bind_group
\* calls covering the B indices, exactly V set_vertex_buffer calls covering the
\* V slots, and exactly one set_index_buffer call.
C3_ExactlyOncePerSlot ==
    \A p \in DOMAIN passes :
        \A k \in DOMAIN passes[p].calls :
            LET calls == passes[p].calls
                j == LastSetPipeline(calls, k)
            IN (IsCall(calls[k], "draw_indexed") /\ j > 0) =>
                /\ Cardinality(Between(calls, j, k, "set_index_buffer")) = 1
                /\ Cardinality(Between(calls, j, k, "set_bind_group"))
                       = SlotsB(calls[j].pipeline)
                /\ Cardinality(Between(calls, j, k, "set_vertex_buffer"))
                       = SlotsV(calls[j].pipeline)
                /\ \A b \in 0..(SlotsB(calls[j].pipeline) - 1) :
                       \E i \in Between(calls, j, k, "set_bind_group") :
                           calls[i].index = b
                /\ \A v \in 0..(SlotsV(calls[j].pipeline) - 1) :
                       \E i \in Between(calls, j, k, "set_vertex_buffer") :
                           calls[i].slot = v

\* C3, amended: every backend draw_indexed call that follows a set_pipeline
\* call is preceded, since the last set_pipeline, by set_bind_group calls
\* covering the B indices, set_vertex_buffer calls covering the V slots and
\* at least one set_index_buffer call (a slot or the index buffer may be set
\* more than once).
C3_AllSlotsCovered ==
    \A p \in DOMAIN passes :
        \A k \in DOMAIN passes[p].calls :
            LET calls == passes[p].calls
                j == LastSetPipeline(calls, k)
            IN (IsCall(calls[k], "draw_indexed") /\ j > 0) =>
                /\ Between(calls, j, k, "set_index_buffer") # {}
                /\ \A b \in 0..(SlotsB(calls[j].pipeline) - 1) :
                       \E i \in Between(calls, j, k, "set_bind_group") :
                           calls[i].index = b
                /\ \A v \in 0..(SlotsV(calls[j].pipeline) - 1) :
                       \E i \in Between(calls, j, k, "set_vertex_buffer") :
                           calls[i].slot = v

\* a draw issued on the pipeline with one bind group and two vertex buffers
C3_Witness ==
    /\ InPass
    /\ CurrentCalls # <<>>
    /\ IsCall(CurrentCalls[Len(CurrentCalls)], "draw_indexed")
    /\ LastSetPipeline(CurrentCalls, Len(CurrentCalls)) > 0
    /\ CurrentCalls[LastSetPipeline(CurrentCalls, Len(CurrentCalls))].pipeline = "P12"

AtSetPipeline == AtCommand /\ Command.type = "SetPipeline"
\* the last set_pipeline call of the pass being replayed, 0 if none
BoundAt == LastSetPipeline(CurrentCalls, Len(CurrentCalls))
\* set_index_buffer was called since the last set_pipeline call
IndexBufferSetSince ==
    Between(CurrentCalls, BoundAt, Len(CurrentCalls) + 1, "set_index_buffer") # {}

\* C4: replaying SetPipeline(p) leaves the DrawState with pipeline p, B empty
\* bind-group slots, V empty vertex-buffer slots and no index buffer, whatever
\* it held before; a DrawIndexed replayed after it and before a SetIndexBuffer
\* is dropped; on a pipeline with B = 0 and V = 0 a DrawIndexed replayed after
\* a SetIndexBuffer is issued.
C4_SetPipelineResets ==
    [][/\ (AtSetPipeline /\ pc' = "pass") =>
            /\ draw_state'.pipeline = Command.pipeline
            /\ draw_state'.bind_groups = [i \in 1..SlotsB(Command.pipeline) |-> None]
            /\ draw_state'.vertex_buffers = [i \in 1..SlotsV(Command.pipeline) |-> None]
            /\ draw_state'.index_buffer = None
       /\ (AtDrawIndexed /\ BoundAt > 0 /\ ~IndexBufferSetSince) => passes' = passes
       /\ (/\ AtDrawIndexed
           /\ BoundAt > 0
           /\ SlotsB(CurrentCalls[BoundAt].pipeline) = 0
           /\ SlotsV(CurrentCalls[BoundAt].pipeline) = 0
           /\ IndexBufferSetSince) => IssuesDraw]_vars

\* SetIndexBuffer, SetPipeline on the pipeline without slots, then a
\* DrawIndexed that was dropped
C4_Witness ==
    /\ InPass
    /\ Len(CurrentCalls) = 2
    /\ IsCall(CurrentCalls[1], "set_index_buffer")
    /\ CurrentCalls[2] = [call |-> "set_pipeline", pipeline |-> "P00"]
    /\ log = <<[pipeline |-> "P00"]>>
    /\ draw_state.index_buffer = None

\* C5: replaying a DrawIndexed while the DrawState is not ready issues no
\* backend call, logs one diagnostic naming the current pipeline, leaves the
\* DrawState unchanged and goes on with the next command; the rest of the
\* entity's commands then replays as it would without the dropped command.
C5_DroppedDrawContinues ==
    /\ [][(AtDrawIndexed /\ ~SlotsFilled(draw_state)) =>
            /\ passes' = passes
            /\ log' = Append(log, [pipeline |-> draw_state.pipeline])
            /\ draw_state' = draw_state
            /\ pc' = "pass"
            /\ cmd_i' = cmd_i + 1
            /\ UNCHANGED <<cam_i, ent_i, descriptor, cameras, world_vars>>]_vars
    /\ [](AtDrawIndexed /\ ~SlotsFilled(draw_state) =>
            LET rest == SubSeq(Draw.render_commands, cmd_i + 1,
                               Len(Draw.render_commands))
                with == RunStream(draw_state, <<Command>> \o rest)
                without == RunStream(draw_state, rest)
            IN /\ with.calls = without.calls
               /\ with.draw_state = without.draw_state
               /\ with.ok = without.ok)

\* the first command of the pass was a DrawIndexed, dropped, and a later
\* command of the same entity reached the backend
C5_Witness ==
    /\ Eligible
    /\ ent_i = 1
    /\ cmd_i > 2
    /\ Draw.render_commands[1].type = "DrawIndexed"
    /\ log # <<>>
    /\ CurrentCalls # <<>>


----------------------------------------------------------------------------
(* The command stream of a pass, read off the world. *)

DrawOf(e) == IF e \in DOMAIN draws THEN draws[e] ELSE Absent

RECURSIVE EligibleCommands(_)
\* the commands of the entities that have a visible Draw, in the entities' order
EligibleCommands(entities) ==
    IF entities = <<>> THEN <<>>
    ELSE LET d == DrawOf(Head(entities)) IN
         (IF d.present /\ d.is_visible THEN d.render_commands ELSE <<>>)
             \o EligibleCommands(Tail(entities))

\* the whole stream of the pass of a camera name
PassStream(camera_name) ==
    EligibleCommands(visible_entities[active_cameras[camera_name]].entities)

\* the commands replayed so far in the pass being replayed
Replayed ==
    EligibleCommands(SubSeq(Visible, 1, ent_i - 1))
        \o (IF ent_i <= Len(Visible) /\ Draw.present /\ Draw.is_visible
            THEN SubSeq(Draw.render_commands, 1, cmd_i - 1)
            ELSE <<>>)

\* the invocation aborted inside a pass, at the command cmd_i points to
AbortedInPass == pc = "panicked" /\ passes # <<>> /\ ~passes[Len(passes)].closed

NumCommands(stream, type) ==
    Cardinality({k \in DOMAIN stream : stream[k].type = type})

\* the id of bind group `index` in the layout of `pipeline`
LayoutId(pipeline, index) ==
    IF pipeline # None /\ pipelines_has(pipeline) /\ index < SlotsB(pipeline)
    THEN get_layout(pipelines_get(pipeline)).bind_groups[index + 1].id
    ELSE None

\* the one backend call a command stands for, with `pipeline` the handle of
\* the last SetPipeline before it
CallOf(cmd, pipeline) ==
    CASE cmd.type = "SetPipeline" ->
            [call |-> "set_pipeline", pipeline |-> cmd.pipeline]
      [] cmd.type = "DrawIndexed" ->
            [call |-> "draw_indexed", indices |-> cmd.indices,
             base_vertex |-> cmd.base_vertex, instances |-> cmd.instances]
      [] cmd.type = "SetVertexBuffer" ->
            [call |-> "set_vertex_buffer", slot |-> cmd.slot, buffer |-> cmd.buffer,
             offset |-> cmd.offset]
      [] cmd.type = "SetIndexBuffer" ->
            [call |-> "set_index_buffer", buffer |-> cmd.buffer, offset |-> cmd.offset]
      [] cmd.type = "SetBindGroup" ->
            [call |-> "set_bind_group", index |-> cmd.index,
             bind_group_descriptor |-> LayoutId(pipeline, cmd.index),
             bind_group |-> cmd.bind_group,
             dynamic_uniform_indices |-> cmd.dynamic_uniform_indices]

RECURSIVE Matches(_, _, _)
\* calls is the stream's commands mapped one to one by CallOf, in the stream's
\* order, with nothing left out but DrawIndexed commands
Matches(calls, stream, pipeline) ==
    IF stream = <<>> THEN calls = <<>>
    ELSE LET cmd == Head(stream)
             bound == IF cmd.type = "SetPipeline" THEN cmd.pipeline ELSE pipeline
         IN \/ /\ calls # <<>>
               /\ Head(calls) = CallOf(cmd, pipeline)
               /\ Matches(Tail(calls), Tail(stream), bound)
            \/ /\ cmd.type = "DrawIndexed"
               /\ Matches(calls, Tail(stream), bound)

RECURSIVE SumOver(_, _)
SumOver(f, n) == IF n = 0 THEN 0 ELSE f[n] + SumOver(f, n - 1)

\* the DrawIndexed commands met so far in this update, and the draw_indexed
\* calls the backend got
DrawCommandsMet ==
    SumOver([p \in DOMAIN passes |->
                IF passes[p].closed
                THEN NumCommands(PassStream(passes[p].camera), "DrawIndexed")
                ELSE NumCommands(Replayed, "DrawIndexed")], Len(passes))
DrawCallsMade ==
    SumOver([p \in DOMAIN passes |-> NumCalls(passes[p].calls, "draw_indexed")],
            Len(passes))

----------------------------------------------------------------------------
\* C6: the backend calls of a pass are the commands of the eligible visible
\* entities, in visibility order and then declaration order, each mapped to
\* its one backend call, with only dropped DrawIndexed commands (one
\* diagnostic each) left out: of a closed pass the whole stream, of the pass
\* being replayed the commands replayed so far, and of a pass the invocation
\* aborted in the commands replayed before the aborting one, followed by that
\* command's call if it was issued before the failure.
C6_CallsFollowCommands ==
    /\ \A p \in DOMAIN passes :
           passes[p].closed => Matches(passes[p].calls, PassStream(passes[p].camera), None)
    /\ InPass => Matches(CurrentCalls, Replayed, None)
    /\ AbortedInPass =>
           \/ Matches(CurrentCalls, Replayed, None)
           \/ /\ Draw.render_commands[cmd_i].type # "DrawIndexed"
              /\ Matches(CurrentCalls, Append(Replayed, Draw.render_commands[cmd_i]), None)
    /\ pc \in {"pass", "cameras", "done"} => DrawCommandsMet = DrawCallsMade + Len(log)

\* a closed pass of at least three backend calls, the last a draw, in an
\* update that dropped a draw
C6_Witness ==
    /\ pc = "done"
    /\ passes # <<>>
    /\ Len(passes[1].calls) >= 3
    /\ IsCall(passes[1].calls[Len(passes[1].calls)], "draw_indexed")
    /\ log # <<>>

\* C7: a visible entity without Draw, or with an invisible Draw, adds no
\* backend call and no diagnostic and leaves the DrawState as it is; the pass
\* goes on with the next visible entity.
C7_IneligibleEntitySkipped ==
    [][(AtEntity /\ (~Draw.present \/ ~Draw.is_visible)) =>
            /\ passes' = passes
            /\ log' = log
            /\ draw_state' = draw_state
            /\ pc' = "pass"
            /\ ent_i' = ent_i + 1
            /\ cam_i' = cam_i]_vars

\* the first visible entity has an invisible Draw that holds commands, and
\* the second entity's first command is the only one that reached the backend
C7_Witness ==
    /\ InPass
    /\ ent_i = 2
    /\ cmd_i = 2
    /\ Eligible
    /\ draws[Visible[1]].present
    /\ ~draws[Visible[1]].is_visible
    /\ draws[Visible[1]].render_commands # <<>>
    /\ Len(CurrentCalls) = 1

IsActive(camera_name) ==
    camera_name \in DOMAIN active_cameras /\ active_cameras[camera_name] # None
PassCameras == [p \in DOMAIN passes |-> passes[p].camera]
\* the registered names the camera loop has dealt with
CamerasDone == SubSeq(cameras, 1, IF InPass THEN cam_i ELSE cam_i - 1)

\* C8: the passes begun in an update are those of the registered camera
\* names dealt with so far that have an active camera entity, in registration
\* order, duplicates kept; when update returns, those of all registered names.
C8_PassesFollowCameras ==
    /\ [](pc \in {"cameras", "pass", "done"} =>
            PassCameras = SelectSeq(CamerasDone, IsActive))
    /\ [][(pc # "done" /\ pc' = "done") =>
            PassCameras' = SelectSeq(cameras, IsActive)]_vars

\* an inactive name registered before an active one: one pass, for the second
C8_Witness ==
    /\ pc = "done"
    /\ Len(cameras) = 2
    /\ ~IsActive(cameras[1])
    /\ IsActive(cameras[2])
    /\ PassCameras = <<cameras[2]>>

AtSetBindGroup == AtCommand /\ Command.type = "SetBindGroup"

\* C9: replaying a SetBindGroup in a pass in which no SetPipeline was replayed
\* aborts the invocation without any backend call, and nothing is processed
\* after an abort.
C9_BindGroupWithoutPipelineAborts ==
    /\ [][(AtSetBindGroup /\ NumCalls(CurrentCalls, "set_pipeline") = 0) =>
            /\ pc' = "panicked"
            /\ passes' = passes
            /\ log' = log]_vars
    /\ [][pc # "panicked"]_vars

\* the invocation aborted at a SetBindGroup of a pass without set_pipeline
\* call, with a registered camera still to come
C9_Witness ==
    /\ pc = "panicked"
    /\ passes # <<>>
    /\ ~passes[Len(passes)].closed
    /\ NumCalls(CurrentCalls, "set_pipeline") = 0
    /\ Draw.render_commands[cmd_i].type = "SetBindGroup"
    /\ cam_i < Len(cameras)


\* The scenario: a pipeline of 2 vertex-buffer slots and 1 bind-group slot
Scenario4 == <<SetPipeline("P12"), VB0, BG0, TheDraw>>
Scenario5 == <<SetPipeline("P12"), VB0, BG0, VB1, TheDraw>>
Scenario6 == <<SetPipeline("P12"), VB0, BG0, VB1, IB, TheDraw>>

\* the last replayed command was dropped: no draw_indexed call in the pass
\* and a diagnostic naming P12 logged last
ScenarioDrawDropped ==
    /\ NumCalls(CurrentCalls, "draw_indexed") = 0
    /\ log # <<>>
    /\ log[Len(log)] = [pipeline |-> "P12"]

\* exactly one draw_indexed call, last, carrying the command's base_vertex,
\* index range and instance range
ScenarioDrawIssued ==
    /\ NumCalls(CurrentCalls, "draw_indexed") = 1
    /\ CurrentCalls[Len(CurrentCalls)] =
           [call |-> "draw_indexed", indices |-> TheDraw.indices,
            base_vertex |-> TheDraw.base_vertex, instances |-> TheDraw.instances]

\* C10 as stated: SetPipeline(P), SetVertexBuffer(0,A), SetBindGroup(0,G),
\* DrawIndexed drops the draw, and with SetVertexBuffer(1,B) added before
\* DrawIndexed the draw is issued, once, with the command's arguments.
C10_ScenarioAsStated ==
    /\ (InPass /\ Replayed = Scenario4) => ScenarioDrawDropped
    /\ (InPass /\ Replayed = Scenario5) => ScenarioDrawIssued

\* C10, amended: SetPipeline(P), SetVertexBuffer(0,A), SetBindGroup(0,G),
\* DrawIndexed drops the draw; with SetVertexBuffer(1,B) added before
\* DrawIndexed the draw is still dropped, no index buffer being set; with
\* SetVertexBuffer(1,B) and SetIndexBuffer(I) added before DrawIndexed the
\* draw is issued, once, with the command's arguments.
C10_ScenarioWithIndexBuffer ==
    /\ (InPass /\ Replayed = Scenario4) => ScenarioDrawDropped
    /\ (InPass /\ Replayed = Scenario5) => ScenarioDrawDropped
    /\ (InPass /\ Replayed = Scenario6) => ScenarioDrawIssued

\* the six-command stream was replayed and its draw reached the backend
C10_Witness ==
    /\ InPass
    /\ Replayed = Scenario6
    /\ Len(CurrentCalls) = 6
    /\ IsCall(CurrentCalls[6], "draw_indexed")

----------------------------------------------------------------------------
\* the passes of this update that the backend has not closed
OpenPasses == {p \in DOMAIN passes : ~passes[p].closed}

\* C11: passes are scoped.  While the commands of a camera are replayed
\* exactly one pass is open, the one begun last; between two cameras and
\* when update has returned no pass is open, also when draws were dropped or
\* entities skipped; after an abort at most the pass being replayed is open.
C11_PassesScoped ==
    /\ Cardinality(OpenPasses) <= 1
    /\ OpenPasses \subseteq {Len(passes)}
    /\ pc = "pass" => OpenPasses = {Len(passes)}
    /\ pc \in {"idle", "cameras", "done"} => OpenPasses = {}

\* update has returned after two passes in which a draw was dropped
C11_Witness ==
    /\ pc = "done"
    /\ Len(passes) = 2
    /\ Len(log) = 2
    /\ \A p \in DOMAIN passes : passes[p].closed /\ passes[p].calls # <<>>

----------------------------------------------------------------------------
\* C12: the DrawState is never carried over.  While a pass is replayed, every
\* binding the DrawState holds stems from a backend call of this very pass:
\* a DrawIndexed met before any SetIndexBuffer of its pass is not ready, and a
\* SetBindGroup met before any SetPipeline of its pass finds no pipeline,
\* whatever earlier passes and earlier frames bound.
C12_DrawStateFresh ==
    InPass =>
        /\ draw_state.pipeline # None => NumCalls(CurrentCalls, "set_pipeline") > 0
        /\ draw_state.index_buffer # None => NumCalls(CurrentCalls, "set_index_buffer") > 0
        /\ (\E i \in DOMAIN draw_state.bind_groups : draw_state.bind_groups[i] # None)
              => NumCalls(CurrentCalls, "set_bind_group") > 0
        /\ (\E i \in DOMAIN draw_state.vertex_buffers : draw_state.vertex_buffers[i] # None)
              => NumCalls(CurrentCalls, "set_vertex_buffer") > 0
        /\ CurrentCalls = <<>> => draw_state = [pipeline |-> None, bind_groups |-> <<>>,
                                                 vertex_buffers |-> <<>>,
                                                 index_buffer |-> None]
        /\ (AtDrawIndexed /\ NumCalls(CurrentCalls, "set_index_buffer") = 0)
              => ~SlotsFilled(draw_state)
        /\ (AtSetBindGroup /\ NumCalls(CurrentCalls, "set_pipeline") = 0)
              => draw_state.pipeline = None

\* the second pass of an update has dropped its leading DrawIndexed although
\* the first pass ended with a pipeline and an index buffer bound
C12_Witness ==
    /\ InPass
    /\ Len(passes) = 2
    /\ NumCalls(passes[1].calls, "set_pipeline") > 0
    /\ NumCalls(passes[1].calls, "set_index_buffer") > 0
    /\ NumCalls(passes[1].calls, "draw_indexed") = 0
    /\ CurrentCalls = <<>>
    /\ cmd_i = 2
    /\ Replayed = <<TheDraw>>
    /\ Len(log) = 2

----------------------------------------------------------------------------
\* The attachments as declared to MainPassNode::new
DeclaredColors == declared.color_attachments
DeclaredDepth == declared.depth_stencil_attachment
IsNamedInput(att) == att.kind = "Input"
\* the number of named-input attachments among the first i color attachments
NamedColorsUpTo(i) == Cardinality({k \in 1..i : IsNamedInput(DeclaredColors[k])})
\* the position in the input slot list of the i-th color attachment and of the
\* depth-stencil attachment, in declaration order, counted from 1
SlotOfColor(i) == NamedColorsUpTo(i)
SlotOfDepth == NamedColorsUpTo(Len(DeclaredColors)) + 1
\* the slot positions of the attachments declared as named inputs
NamedSlots ==
    {SlotOfColor(i) : i \in {k \in 1..Len(DeclaredColors) : IsNamedInput(DeclaredColors[k])}}
        \cup (IF IsNamedInput(DeclaredDepth) THEN {SlotOfDepth} ELSE {})

\* the descriptor a pass of a frame supplying `slots` is to be opened with
ExpectedDescriptor(slots) ==
    [color_attachments |->
        [i \in 1..Len(DeclaredColors) |->
            IF IsNamedInput(DeclaredColors[i])
            THEN [kind |-> "Id", id |-> slots[SlotOfColor(i)].id]
            ELSE DeclaredColors[i]],
     depth_stencil_attachment |->
        IF IsNamedInput(DeclaredDepth)
        THEN [kind |-> "Id", id |-> slots[SlotOfDepth].id]
        ELSE DeclaredDepth]

\* C13: every pass is begun with a resolved descriptor: an attachment declared
\* as a named input holds the texture the frame's ResourceSlots hold at its
\* slot, slots being numbered in declaration order over the named color
\* attachments and then the depth-stencil attachment, which is the order of the
\* inputs list; an attachment declared with a literal handle holds that handle.
C13_PassDescriptorResolved ==
    \A p \in DOMAIN passes :
        /\ \A k \in NamedSlots : k \in DOMAIN input /\ input[k].kind = "Texture"
        /\ passes[p].descriptor = ExpectedDescriptor(input)
        /\ \A i \in 1..Len(DeclaredColors) :
              /\ passes[p].descriptor.color_attachments[i].kind = "Id"
              /\ IsNamedInput(DeclaredColors[i]) =>
                    /\ inputs[SlotOfColor(i)].name = DeclaredColors[i].name
                    /\ input[SlotOfColor(i)].kind = "Texture"
        /\ passes[p].descriptor.depth_stencil_attachment.kind # "Input"
        /\ IsNamedInput(DeclaredDepth) =>
              /\ inputs[SlotOfDepth].name = DeclaredDepth.name
              /\ input[SlotOfDepth].kind = "Texture"

\* a pass begun with a literal color attachment, a named color attachment and
\* a named depth-stencil attachment, the two slots holding different textures
C13_Witness ==
    /\ passes # <<>>
    /\ declared = [color_attachments |-> <<AttId("T0"), AttInput("color")>>,
                   depth_stencil_attachment |-> AttInput("depth")]
    /\ input = <<SlotTexture("T2"), SlotTexture("T1")>>
    /\ passes[1].descriptor = [color_attachments |-> <<AttId("T0"), AttId("T2")>>,
                               depth_stencil_attachment |-> AttId("T1")]

----------------------------------------------------------------------------
\* some named-input attachment finds no resource, or no texture, at its slot
Unresolvable(slots) ==
    \E k \in NamedSlots : k \notin DOMAIN slots \/ slots[k].kind # "Texture"

\* C14: an update whose ResourceSlots hold no resource, or a resource that is
\* not a texture, at the slot of some named-input attachment aborts before any
\* pass is begun: no begin_pass, no backend call and no diagnostic, whatever
\* cameras and entities there are.
C14_UnresolvedInputAborts ==
    (frame > 0 /\ Unresolvable(input)) =>
        /\ pc = "panicked"
        /\ passes = <<>>
        /\ log = <<>>

\* an update aborted on a buffer in the slot of a named input, with a
\* registered active camera that sees an entity
C14_Witness ==
    /\ pc = "panicked"
    /\ passes = <<>>
    /\ \E k \in NamedSlots : input[k].kind = "Buffer"
    /\ \A k \in NamedSlots : input[k].kind # "Empty"
    /\ cameras # <<>>
    /\ IsActive(cameras[1])
    /\ visible_entities[active_cameras[cameras[1]]].present
    /\ visible_entities[active_cameras[cameras[1]]].entities # <<>>

----------------------------------------------------------------------------
\* the name has an active camera entity that lacks the VisibleEntities component
MissingVisible(camera_name) ==
    /\ IsActive(camera_name)
    /\ ~visible_entities[active_cameras[camera_name]].present

\* C15: a registered name whose active camera entity lacks VisibleEntities
\* aborts the invocation: the camera loop never gets past such a name, and the
\* aborted invocation has begun the passes of the earlier names only, none for
\* that camera and none for a later one.
C15_MissingVisibleEntitiesAborts ==
    /\ pc \in {"cameras", "pass", "done"} =>
          \A k \in DOMAIN CamerasDone : ~MissingVisible(CamerasDone[k])
    /\ (/\ pc = "panicked"
        /\ AllResources \subseteq resources
        /\ ~Unresolvable(input)
        /\ OpenPasses = {}) =>
          /\ cam_i <= Len(cameras)
          /\ MissingVisible(cameras[cam_i])
          /\ PassCameras = SelectSeq(SubSeq(cameras, 1, cam_i - 1), IsActive)

\* the invocation aborted at a first name whose camera entity lacks
\* VisibleEntities, the second name having a camera that sees an entity
C15_Witness ==
    /\ pc = "panicked"
    /\ Len(cameras) = 2
    /\ cam_i = 1
    /\ MissingVisible(cameras[1])
    /\ IsActive(cameras[2])
    /\ visible_entities[active_cameras[cameras[2]]].present
    /\ visible_entities[active_cameras[cameras[2]]].entities # <<>>
    /\ passes = <<>>

----------------------------------------------------------------------------
\* the entity loop stands at an entity that has no Draw component
AtEntityWithoutDraw == AtEntity /\ ~DrawOf(Visible[ent_i]).present
\* the camera loop stands at a name whose camera entity lacks VisibleEntities
AtCameraWithoutVisible == AtCamera /\ MissingVisible(cameras[cam_i])
\* the step skips what the loop stands at and the invocation goes on
SkipsEntity ==
    /\ pc' = "pass"
    /\ ent_i' = ent_i + 1
    /\ cam_i' = cam_i
    /\ passes' = passes
SkipsCamera ==
    /\ pc' = "cameras"
    /\ cam_i' = cam_i + 1
    /\ passes' = passes

\* C16 as stated: both absences are benign skips: an absent Draw skips the
\* entity, an absent VisibleEntities on a camera entity skips the camera, and
\* the invocation goes on in both cases.
C16_BothAbsencesSkip ==
    [][/\ AtEntityWithoutDraw => SkipsEntity
       /\ AtCameraWithoutVisible => SkipsCamera]_vars

\* C16, amended: only the absent Draw is a benign skip: the entity is skipped
\* and the pass goes on; an absent VisibleEntities on an active camera entity
\* aborts the invocation without a pass for that camera.
C16_AbsentDrawSkipsAbsentVisibleAborts ==
    [][/\ AtEntityWithoutDraw => SkipsEntity
       /\ AtCameraWithoutVisible => (pc' = "panicked" /\ passes' = passes
                                        /\ cam_i' = cam_i)]_vars

\* the pass of the first camera skipped an entity without Draw and was closed,
\* and the invocation aborted at the second camera, which lacks VisibleEntities
C16_Witness ==
    /\ pc = "panicked"
    /\ cam_i = 2
    /\ Len(cameras) = 2
    /\ MissingVisible(cameras[2])
    /\ Len(passes) = 1
    /\ passes[1].closed
    /\ \E k \in DOMAIN visible_entities[active_cameras[cameras[1]]].entities :
          ~DrawOf(visible_entities[active_cameras[cameras[1]]].entities[k]).present

----------------------------------------------------------------------------
\* the pipeline of the last SetPipeline replayed in the pass, None if none
BoundPipeline == IF BoundAt = 0 THEN None ELSE CurrentCalls[BoundAt].pipeline
\* the slot counts that pipeline dictates, 0 while no pipeline is bound
BoundSlotsB == IF BoundPipeline = None THEN 0 ELSE SlotsB(BoundPipeline)
BoundSlotsV == IF BoundPipeline = None THEN 0 ELSE SlotsV(BoundPipeline)

\* C17: while a pass is replayed, the DrawState's pipeline is the one of the
\* last SetPipeline of the pass, its bind-group array is as long as that
\* pipeline's layout has bind groups and its vertex-buffer array as long as
\* the layout has vertex buffers, both empty while no pipeline is bound; the
\* lengths hence change with a SetPipeline only.
C17_LengthsFollowPipeline ==
    InPass =>
        /\ draw_state.pipeline = BoundPipeline
        /\ Len(draw_state.bind_groups) = BoundSlotsB
        /\ Len(draw_state.vertex_buffers) = BoundSlotsV

\* after a pipeline without slots, the pipeline with one bind group and two
\* vertex buffers was bound and a vertex buffer was set
C17_Witness ==
    /\ InPass
    /\ NumCalls(CurrentCalls, "set_pipeline") = 2
    /\ CurrentCalls[1] = [call |-> "set_pipeline", pipeline |-> "P00"]
    /\ draw_state.pipeline = "P12"
    /\ draw_state.bind_groups = <<None>>
    /\ draw_state.vertex_buffers = <<"A", None>>

----------------------------------------------------------------------------
\* The backend's bindings, read off the calls of the pass being replayed that
\* were issued since its last set_pipeline call
CallsSince == {k \in DOMAIN CurrentCalls : k > BoundAt}
LastOf(S) == CHOOSE k \in S : \A j \in S : j <= k
IndexBufferCalls == {k \in CallsSince : IsCall(CurrentCalls[k], "set_index_buffer")}
VertexBufferCalls(slot) ==
    {k \in CallsSince : IsCall(CurrentCalls[k], "set_vertex_buffer")
                           /\ CurrentCalls[k].slot = slot}
BindGroupCalls(index) ==
    {k \in CallsSince : IsCall(CurrentCalls[k], "set_bind_group")
                           /\ CurrentCalls[k].index = index}
BackendIndexBuffer ==
    IF IndexBufferCalls = {} THEN None ELSE CurrentCalls[LastOf(IndexBufferCalls)].buffer
BackendVertexBuffer(slot) ==
    IF VertexBufferCalls(slot) = {} THEN None
    ELSE CurrentCalls[LastOf(VertexBufferCalls(slot))].buffer
BackendBindGroup(index) ==
    IF BindGroupCalls(index) = {} THEN None
    ELSE CurrentCalls[LastOf(BindGroupCalls(index))].bind_group

\* C18: at every DrawIndexed the DrawState holds what the backend was told
\* since the last set_pipeline call of the pass: the same pipeline, the same
\* index buffer, in every vertex-buffer slot and bind-group slot the buffer or
\* bind group last bound to it, and no backend bind went to a slot the
\* DrawState does not have.
C18_ValidatorMatchesBackend ==
    AtDrawIndexed =>
        /\ draw_state.pipeline = BoundPipeline
        /\ draw_state.index_buffer = BackendIndexBuffer
        /\ \A i \in DOMAIN draw_state.vertex_buffers :
              draw_state.vertex_buffers[i] = BackendVertexBuffer(i - 1)
        /\ \A i \in DOMAIN draw_state.bind_groups :
              draw_state.bind_groups[i] = BackendBindGroup(i - 1)
        /\ \A k \in CallsSince :
              /\ IsCall(CurrentCalls[k], "set_vertex_buffer") =>
                    CurrentCalls[k].slot + 1 \in DOMAIN draw_state.vertex_buffers
              /\ IsCall(CurrentCalls[k], "set_bind_group") =>
                    CurrentCalls[k].index + 1 \in DOMAIN draw_state.bind_groups

\* a DrawIndexed met with the pipeline, its bind group, one of its two vertex
\* buffers and the index buffer bound
C18_Witness ==
    /\ AtDrawIndexed
    /\ draw_state = [pipeline |-> "P12", bind_groups |-> <<"G">>,
                     vertex_buffers |-> <<None, "B">>, index_buffer |-> "I"]
    /\ Len(CurrentCalls) = 4

----------------------------------------------------------------------------
\* C19: a command whose replay aborts the invocation (SetBindGroup without a
\* pipeline, SetVertexBuffer or SetBindGroup beyond the pipeline's slots,
\* SetPipeline with a handle the store cannot resolve) has reached the backend
\* with no call: the step that aborts leaves the calls of the pass as they were.
C19_AbortBeforeBackendCall ==
    [][(AtCommand /\ pc' = "panicked") => passes' = passes]_vars

----------------------------------------------------------------------------
\* the input slot list and the recorded indices are those new built from the
\* declared descriptor
NodeAsBuilt ==
    /\ Len(inputs) = Cardinality(NamedSlots)
    /\ \A i \in 1..Len(DeclaredColors) :
          /\ IsNamedInput(DeclaredColors[i]) =>
                /\ color_attachment_input_indices[i] = SlotOfColor(i) - 1
                /\ inputs[SlotOfColor(i)] =
                      [name |-> DeclaredColors[i].name, resource_type |-> "Texture"]
          /\ ~IsNamedInput(DeclaredColors[i]) =>
                color_attachment_input_indices[i] = 0 - 1
    /\ Len(color_attachment_input_indices) = Len(DeclaredColors)
    /\ IF IsNamedInput(DeclaredDepth)
       THEN /\ depth_stencil_attachment_input_index = SlotOfDepth - 1
            /\ inputs[SlotOfDepth] =
                  [name |-> DeclaredDepth.name, resource_type |-> "Texture"]
       ELSE depth_stencil_attachment_input_index = 0 - 1

\* the handle a pass holds for the named input at slot k
PassHandle(p, k) ==
    IF IsNamedInput(DeclaredDepth) /\ k = SlotOfDepth
    THEN passes[p].descriptor.depth_stencil_attachment.id
    ELSE LET i == CHOOSE j \in 1..Len(DeclaredColors) :
                      IsNamedInput(DeclaredColors[j]) /\ SlotOfColor(j) = k
         IN passes[p].descriptor.color_attachments[i].id

\* C20: in every frame, also one that follows a frame with other
\* ResourceSlots, every pass holds for each named-input attachment the handle
\* of this frame's ResourceSlots, not the one the previous frame left in the
\* stored descriptor; update leaves the input slot list and the recorded
\* indices as new built them.
C20_FrameHandlesNeverStale ==
    /\ NodeAsBuilt
    /\ \A p \in DOMAIN passes : \A k \in NamedSlots :
          /\ k \in DOMAIN input /\ input[k].kind = "Texture"
          /\ PassHandle(p, k) = input[k].id
          /\ (frame > 1 /\ k \in DOMAIN last_input /\ last_input[k].kind = "Texture"
                /\ last_input[k].id # input[k].id)
                => PassHandle(p, k) # last_input[k].id

\* a pass of the second frame, whose ResourceSlots swap the textures the
\* first frame supplied for the named color and depth-stencil attachments
C20_Witness ==
    /\ frame = 2
    /\ passes # <<>>
    /\ declared = [color_attachments |-> <<AttInput("color")>>,
                   depth_stencil_attachment |-> AttInput("depth")]
    /\ last_input = <<SlotTexture("T1"), SlotTexture("T2")>>
    /\ input = <<SlotTexture("T2"), SlotTexture("T1")>>
    /\ passes[1].descriptor = [color_attachments |-> <<AttId("T2")>>,
                               depth_stencil_attachment |-> AttId("T1")]

====
